---- MODULE Spec2Model ----
(***************************************************************************)
(* Elastic operators of models/inception_resnet_v1.py: the elastic         *)
(* convolution SuperConv2D, the elastic container SuperSequential, the     *)
(* configuration protocol of InceptionResnetV1 (set_config / get_config    *)
(* over get_super_ops / get_super_sequential_ops) and the accounting       *)
(* oracle get_parameters.                                                  *)
(*                                                                         *)
(* A module instance is identified by its path from the root: the sequence *)
(* of child positions (1-based, registration order of nn.Module._modules). *)
(* The module tree itself never changes after construction; the mutable    *)
(* attributes of the instances are kept in functions over paths.           *)
(*                                                                         *)
(* Tensors are modelled by their index structure: a view of a tensor is    *)
(* the tuple, one entry per axis, of the source indices (0-based, as in    *)
(* Python) it selects.  Channel widths, kernel extents and block           *)
(* repetition counts of the network are scaled down; the topology ConvReal *)
(* holds conv2d_2a at its real extent 32/32/3.                             *)
(***************************************************************************)
EXTENDS Integers, Sequences, FiniteSets, TLC

\* ------------------------------------------------------------------------
\* Bounds of the exploration
\* ------------------------------------------------------------------------
\* kernel sizes a caller passes are 1..MaxKernel
MaxKernel == 3
\* channel counts a caller passes are 1..MaxChan
MaxChan == 2
\* depths a caller passes are 0..MaxDepth
MaxDepth == 3

\* Python's None, and a present optional value
None == <<>>
Some(v) == <<v>>

KernelVals == 1..MaxKernel
ChanVals == 1..MaxChan
DepthVals == 0..MaxDepth

RECURSIVE SumSeq(_)
SumSeq(s) == IF Len(s) = 0 THEN 0 ELSE Head(s) + SumSeq(Tail(s))

RECURSIVE Concat(_)
Concat(ss) == IF Len(ss) = 0 THEN <<>> ELSE Head(ss) \o Concat(Tail(ss))

\* all sequences over S of length 0..n
SeqsUpTo(S, n) == UNION {[1..k -> S] : k \in 0..n}

\* ------------------------------------------------------------------------
\* Module instances (the static tree)
\* ------------------------------------------------------------------------
\* numel is the number of stored parameter elements the instance itself owns.
Node(kind, children, numel, din, dout, dk, bias) ==
    [kind |-> kind, children |-> children, numel |-> numel,
     super_in_dim |-> din, super_out_dim |-> dout, super_kernel_size |-> dk,
     has_bias |-> bias]

\* torch leaves used by the file
Conv2d(in_planes, out_planes, kh, kw, bias) ==
    Node("Conv2d", <<>>,
         out_planes * in_planes * kh * kw + (IF bias THEN out_planes ELSE 0),
         0, 0, 0, bias)
BatchNorm2d(planes) == Node("BatchNorm2d", <<>>, 2 * planes, 0, 0, 0, FALSE)
ReLU == Node("ReLU", <<>>, 0, 0, 0, 0, FALSE)
MaxPool2d == Node("MaxPool2d", <<>>, 0, 0, 0, 0, FALSE)
Linear(fin, fout) == Node("Linear", <<>>, fin * fout, 0, 0, 0, FALSE)

\* SuperConv2D.__init__: the superkernel weight has extent
\* (super_out_dim, super_in_dim, super_kernel_size, super_kernel_size).
SuperConv2D(super_in_dim, super_out_dim, super_kernel_size, bias) ==
    Node("SuperConv2D", <<>>,
         super_out_dim * super_in_dim * super_kernel_size * super_kernel_size
           + (IF bias THEN super_out_dim ELSE 0),
         super_in_dim, super_out_dim, super_kernel_size, bias)

\* BasicConv2d.__init__: children conv, bn, relu in this order; bias=False.
BasicConv2d(in_planes, out_planes, kernel_size, Conv2d_class) ==
    Node("BasicConv2d",
         << IF Conv2d_class = "SuperConv2D"
              THEN SuperConv2D(in_planes, out_planes, kernel_size, FALSE)
              ELSE Conv2d(in_planes, out_planes, kernel_size, kernel_size, FALSE),
            BatchNorm2d(out_planes),
            ReLU >>,
         0, 0, 0, 0, FALSE)

Sequential(children) == Node("Sequential", children, 0, 0, 0, 0, FALSE)
SuperSequential(children) == Node("SuperSequential", children, 0, 0, 0, 0, FALSE)
\* a subclass of CustomNNModule (the blocks): it has a get_parameters method
CustomNNModule(children) == Node("CustomNNModule", children, 0, 0, 0, 0, FALSE)
\* any other composite nn.Module
Module(children) == Node("Module", children, 0, 0, 0, 0, FALSE)

isinstance_Sequential(m) == m.kind \in {"Sequential", "SuperSequential"}
hasattr_get_parameters(m) == m.kind = "CustomNNModule"

\* nn.Module.named_children(): the direct children in registration order
named_children(m) == m.children

RECURSIVE ModuleAt(_, _)
ModuleAt(m, p) ==
    IF Len(p) = 0 THEN m ELSE ModuleAt(named_children(m)[Head(p)], Tail(p))

\* sum(p.numel() for p in module.parameters()): every stored parameter of the
\* instance and of all its descendants, at its stored (maximal) extent.
RECURSIVE numel_parameters(_)
numel_parameters(m) ==
    m.numel + SumSeq([i \in 1..Len(m.children) |-> numel_parameters(m.children[i])])

\* nn.Module.named_modules(): the instance itself, then every child's
\* named_modules in registration order (depth first, pre-order).  No instance
\* is registered twice in these trees, so the memo set never drops one.
RECURSIVE named_modules(_, _)
named_modules(m, prefix) ==
    <<prefix>> \o
    Concat([i \in 1..Len(named_children(m)) |->
              named_modules(named_children(m)[i], Append(prefix, i))])

\* ------------------------------------------------------------------------
\* Topologies
\* ------------------------------------------------------------------------
\* Block35, scaled: branch0, branch1 = Sequential(plain, elastic), conv2d, relu
Block35 ==
    CustomNNModule(<< BasicConv2d(2, 2, 1, "Conv2d"),
                      Sequential(<< BasicConv2d(2, 2, 1, "Conv2d"),
                                    BasicConv2d(2, 2, 2, "SuperConv2D") >>),
                      Conv2d(4, 2, 1, 1, TRUE),
                      ReLU >>)

\* Block17, scaled: no elastic convolution
Block17 ==
    CustomNNModule(<< BasicConv2d(2, 1, 1, "Conv2d"),
                      Sequential(<< BasicConv2d(2, 1, 1, "Conv2d"),
                                    BasicConv2d(1, 1, 1, "Conv2d"),
                                    BasicConv2d(1, 1, 1, "Conv2d") >>),
                      Conv2d(2, 2, 1, 1, TRUE),
                      ReLU >>)

\* Block8(noReLU=True), scaled: no relu child
Block8 ==
    CustomNNModule(<< BasicConv2d(2, 1, 1, "Conv2d"),
                      Sequential(<< BasicConv2d(2, 1, 1, "Conv2d"),
                                    BasicConv2d(1, 1, 1, "Conv2d") >>),
                      Conv2d(2, 2, 1, 1, TRUE) >>)

\* InceptionResnetV1._create_sequential
_create_sequential(repeat, BlockType) ==
    SuperSequential([i \in 1..repeat |-> BlockType])

\* InceptionResnetV1.__init__: the stem, the repeated stages, the head.
InceptionResnetV1(stem, stages) ==
    Node("InceptionResnetV1",
         stem \o stages \o << Linear(2, 2), BatchNorm2d(2) >>,
         0, 0, 0, 0, FALSE)

\* two elastic convolutions, both inside the one elastic container
NetA ==
    InceptionResnetV1(<< BasicConv2d(3, 2, 3, "Conv2d"), MaxPool2d >>,
                      << _create_sequential(2, Block35) >>)

\* one elastic convolution in the stem (conv2d_2a, scaled), two containers
NetB ==
    InceptionResnetV1(<< BasicConv2d(3, 1, 3, "Conv2d"),
                         BasicConv2d(1, 1, 2, "SuperConv2D") >>,
                      << _create_sequential(2, Block17),
                         _create_sequential(1, Block8) >>)

\* a single elastic convolution held by a plain module: conv2d_2a at its real
\* extent (no bias), and a small one with a bias
ConvReal == Module(<< SuperConv2D(32, 32, 3, FALSE) >>)
ConvBias == Module(<< SuperConv2D(2, 1, 2, TRUE) >>)

\* topologies handed to the accounting oracle
OnlyLeaves == Module(<< Conv2d(2, 2, 1, 1, TRUE), ReLU, Linear(2, 2) >>)
LeavesInSequential == Module(<< Sequential(<< Conv2d(2, 2, 1, 1, TRUE), BatchNorm2d(2) >>) >>)
PlainInComposite ==
    Module(<< CustomNNModule(<< Sequential(<< BasicConv2d(2, 2, 1, "Conv2d") >>),
                                Conv2d(2, 2, 1, 1, FALSE) >>),
              Linear(2, 2) >>)
ElasticInBasic == Module(<< BasicConv2d(2, 2, 2, "SuperConv2D"), Linear(2, 2) >>)
ElasticInSequential == Module(<< Sequential(<< SuperConv2D(2, 2, 2, TRUE) >>) >>)
BasicInSequential == Module(<< Sequential(<< BasicConv2d(2, 2, 2, "SuperConv2D") >>) >>)
ElasticInModule == Module(<< Module(<< SuperConv2D(2, 2, 2, FALSE) >>) >>)

\* the constructed roots, by name
Topologies ==
    [NetA |-> NetA, NetB |-> NetB, ConvReal |-> ConvReal, ConvBias |-> ConvBias,
     OnlyLeaves |-> OnlyLeaves, LeavesInSequential |-> LeavesInSequential,
     PlainInComposite |-> PlainInComposite, ElasticInBasic |-> ElasticInBasic,
     ElasticInSequential |-> ElasticInSequential,
     BasicInSequential |-> BasicInSequential, ElasticInModule |-> ElasticInModule]

Models == DOMAIN Topologies

\* named_modules() of each root: registration never changes after
\* construction, so the traversal of a root is the same at every call
ModulesOf == [n \in Models |-> named_modules(Topologies[n], <<>>)]

Range(s) == {s[i] : i \in 1..Len(s)}

\* the instance at each path of each root
InstanceOf == [n \in Models |-> [p \in Range(ModulesOf[n]) |-> ModuleAt(Topologies[n], p)]]

\* [module for name, module in self.named_modules() if isinstance(module, cls)]
ModulesOfClass(n, cls) ==
    LET isinstance(p) == InstanceOf[n][p].kind = cls
    IN  SelectSeq(ModulesOf[n], isinstance)

SuperOpsOf == [n \in Models |-> ModulesOfClass(n, "SuperConv2D")]
SuperSequentialOpsOf == [n \in Models |-> ModulesOfClass(n, "SuperSequential")]

\* ------------------------------------------------------------------------
\* State
\* ------------------------------------------------------------------------
VARIABLES
    model,       \* the name of the constructed root (fixed after construction)
    subnet_cfg,  \* path of a SuperConv2D -> subnet_in_dim, subnet_out_dim, subnet_kernel_size
    subnet,      \* path of a SuperConv2D -> self.subnet: the weight and bias slices
    num_layers,  \* path of a SuperSequential -> self.num_layers
    ret,         \* the last call: its name, receiver, arguments and outcome
    frames       \* thread -> the call of set_subnet_config or forward it is in

vars == <<model, subnet_cfg, subnet, num_layers, ret, frames>>

\* the root module, and the instance at path p
Root == Topologies[model]
At(p) == InstanceOf[model][p]

Paths == Range(ModulesOf[model])
PathsOfKind(kind) == {p \in Paths : At(p).kind = kind}

\* ------------------------------------------------------------------------
\* SuperConv2D
\* ------------------------------------------------------------------------
\* the indices 0..n-1 of one axis
Arange(n) == [i \in 1..n |-> i - 1]

\* the superkernel parameter: (out, in, kernel, kernel)
weight(op) ==
    << Arange(op.super_out_dim), Arange(op.super_in_dim),
       Arange(op.super_kernel_size), Arange(op.super_kernel_size) >>

\* the bias parameter: (out), or None
bias(op) == IF op.has_bias THEN Some(<< Arange(op.super_out_dim) >>) ELSE None

\* Python's axis[:stop]
PySlice(axis, stop) ==
    LET n == Len(axis)
        e == IF stop >= 0 THEN (IF stop < n THEN stop ELSE n)
                          ELSE (IF n + stop > 0 THEN n + stop ELSE 0)
    IN  SubSeq(axis, 1, e)

\* variant: the reduced kernel is taken from the middle of the maximal one
_subselect_weight_centered(w, subnet_in_dim, subnet_out_dim, subnet_kernel_size) ==
    LET start == (Len(w[3]) - subnet_kernel_size) \div 2
        mid(axis) == IF start > 0 THEN SubSeq(axis, start + 1, start + subnet_kernel_size)
                                  ELSE PySlice(axis, subnet_kernel_size)
    IN  << PySlice(w[1], subnet_out_dim), PySlice(w[2], subnet_in_dim),
           mid(w[3]), mid(w[4]) >>

_subselect_weight(w, subnet_in_dim, subnet_out_dim, subnet_kernel_size) ==
    << PySlice(w[1], subnet_out_dim), PySlice(w[2], subnet_in_dim),
       PySlice(w[3], subnet_kernel_size), PySlice(w[4], subnet_kernel_size) >>

_subselect_bias(b, subnet_out_dim) == << PySlice(b[1], subnet_out_dim) >>

shape(t) == [a \in 1..Len(t) |-> Len(t[a])]

\* SuperConv2D._subnet_parameters: the value of self.subnet afterwards.  The
\* copy to the device keeps extent and content; a process that constructed
\* the operator has the device, since the constructor makes the same copy.
_subnet_parameters(op, cfg) ==
    [weight |-> _subselect_weight(weight(op), cfg.subnet_in_dim,
                                  cfg.subnet_out_dim, cfg.subnet_kernel_size),
     bias |-> IF bias(op) /= None
                THEN Some(_subselect_bias(bias(op)[1], cfg.subnet_out_dim))
                ELSE None]

\* the attributes of all instances, as one value
Heap == [subnet_cfg |-> subnet_cfg, subnet |-> subnet, num_layers |-> num_layers]

\* variant: a field that is not supplied falls back to its maximal value
set_subnet_config_resets(h, p, subnet_in_dim, subnet_out_dim, subnet_kernel_size) ==
    LET op == At(p)
        new == [subnet_in_dim |->
                    IF subnet_in_dim /= None THEN subnet_in_dim[1] ELSE op.super_in_dim,
                subnet_out_dim |->
                    IF subnet_out_dim /= None THEN subnet_out_dim[1] ELSE op.super_out_dim,
                subnet_kernel_size |->
                    IF subnet_kernel_size /= None THEN subnet_kernel_size[1]
                                                  ELSE op.super_kernel_size]
    IN  [h EXCEPT !.subnet_cfg[p] = new,
                  !.subnet[p] = _subnet_parameters(op, new)]

\* variant: the channel arguments are taken in the order of the weight's
\* axes, the output channels first
set_subnet_config_out_first(h, p, subnet_in_dim, subnet_out_dim, subnet_kernel_size) ==
    LET old == h.subnet_cfg[p]
        new == [subnet_in_dim |->
                    IF subnet_out_dim /= None THEN subnet_out_dim[1]
                                              ELSE old.subnet_in_dim,
                subnet_out_dim |->
                    IF subnet_in_dim /= None THEN subnet_in_dim[1]
                                             ELSE old.subnet_out_dim,
                subnet_kernel_size |->
                    IF subnet_kernel_size /= None THEN subnet_kernel_size[1]
                                                  ELSE old.subnet_kernel_size]
    IN  [h EXCEPT !.subnet_cfg[p] = new,
                  !.subnet[p] = _subnet_parameters(At(p), new)]

\* SuperConv2D.set_subnet_config on the instance at path p: the heap afterwards.
set_subnet_config(h, p, subnet_in_dim, subnet_out_dim, subnet_kernel_size) ==
    LET old == h.subnet_cfg[p]
        new == [subnet_in_dim |->
                    IF subnet_in_dim /= None THEN subnet_in_dim[1]
                                             ELSE old.subnet_in_dim,
                subnet_out_dim |->
                    IF subnet_out_dim /= None THEN subnet_out_dim[1]
                                              ELSE old.subnet_out_dim,
                subnet_kernel_size |->
                    IF subnet_kernel_size /= None THEN subnet_kernel_size[1]
                                                  ELSE old.subnet_kernel_size]
    IN  [h EXCEPT !.subnet_cfg[p] = new,
                  !.subnet[p] = _subnet_parameters(At(p), new)]

\* bytes per element of a float32 tensor
element_size == 4

\* calculate_superconv2d_params: <<total_params, weight_size>>, the size in
\* bytes (the code divides it by 1024**2 into a float).
calculate_superconv2d_params(superconv_layer, cfg) ==
    LET weight_params == cfg.subnet_in_dim * cfg.subnet_out_dim
                           * (cfg.subnet_kernel_size * cfg.subnet_kernel_size)
        bias_params == IF bias(superconv_layer) /= None THEN cfg.subnet_out_dim ELSE 0
    IN  << weight_params + bias_params,
           weight_params * element_size + bias_params * element_size >>

\* SuperConv2D.forward on the instance at path p with an input of x_channels
\* channels: re-slices, then convolves with self.subnet["weight"] (the bias
\* is not passed).  F.conv2d rejects an input whose channel count differs
\* from the weight's second extent.  The heap afterwards and the outcome.
SuperConv2D_forward(h, p, x_channels) ==
    LET sub == _subnet_parameters(At(p), h.subnet_cfg[p])
        w == sub.weight
    IN  [heap |-> [h EXCEPT !.subnet[p] = sub],
         raised |-> shape(w)[2] /= x_channels,
         value |-> [weight |-> w, out_channels |-> shape(w)[1]]]

\* ------------------------------------------------------------------------
\* SuperSequential
\* ------------------------------------------------------------------------
\* SuperSequential.set_num_layers
set_num_layers(h, p, n) == [h EXCEPT !.num_layers[p] = n]

\* self[i](x): the sub-operator at path q applied to x.  A value is the input
\* symbol and the sub-operators applied to it so far, in order.
call_module(q, x) == [x EXCEPT !.applied = Append(@, q)]

IsPrefix(a, b) == Len(a) <= Len(b) /\ SubSeq(b, 1, Len(a)) = a

\* variant: the loop of nn.Sequential.forward, over every sub-operator
RECURSIVE forward_from_all(_, _, _, _)
forward_from_all(p, i, n, x) ==
    IF i >= Len(At(p).children) THEN [raised |-> FALSE, value |-> x]
    ELSE forward_from_all(p, i + 1, n, call_module(Append(p, i + 1), x))

\* the loop of SuperSequential.forward from Python index i on: self[i] with
\* i >= len(self) raises IndexError
RECURSIVE forward_from(_, _, _, _)
forward_from(p, i, n, x) ==
    IF i >= n THEN [raised |-> FALSE, value |-> x]
    ELSE IF i >= Len(At(p).children) THEN [raised |-> TRUE, value |-> x]
    ELSE forward_from(p, i + 1, n, call_module(Append(p, i + 1), x))

\* SuperSequential.forward(x, num_layers) on the container at path p.  Every
\* elastic convolution inside an applied sub-operator runs its own forward,
\* which re-slices its weight.
SuperSequential_forward(h, p, x, arg_num_layers) ==
    LET n == IF arg_num_layers = None THEN h.num_layers[p] ELSE arg_num_layers[1]
        r == forward_from(p, 0, n, x)
        ran(q) == \E k \in 1..Len(r.value.applied) : IsPrefix(r.value.applied[k], q)
    IN  [heap |-> [h EXCEPT !.subnet =
                     [q \in DOMAIN h.subnet |->
                        IF ran(q) THEN _subnet_parameters(At(q), h.subnet_cfg[q])
                                  ELSE h.subnet[q]]],
         raised |-> r.raised,
         value |-> r.value]

\* ------------------------------------------------------------------------
\* Configuration protocol of InceptionResnetV1
\* ------------------------------------------------------------------------
\* variant: a traversal that skips the sub-operators beyond a container's
\* active depth
get_super_ops_active ==
    LET executed(p) ==
          \A c \in DOMAIN num_layers :
              (IsPrefix(c, p) /\ Len(p) > Len(c)) => p[Len(c) + 1] <= num_layers[c]
    IN  SelectSeq(SuperOpsOf[model], executed)

\* InceptionResnetV1.get_super_ops
get_super_ops == SuperOpsOf[model]

\* InceptionResnetV1.get_super_sequential_ops
get_super_sequential_ops == SuperSequentialOpsOf[model]

Min(a, b) == IF a < b THEN a ELSE b

\* variant: the kernel sizes are paired with the operators from the last one
RECURSIVE set_config_ks_reversed(_, _, _, _)
set_config_ks_reversed(h, ks, super_ops, i) ==
    IF i > Min(Len(ks), Len(super_ops)) THEN h
    ELSE set_config_ks_reversed(
             set_subnet_config(h, super_ops[Len(super_ops) + 1 - i], None, None, Some(ks[i])),
             ks, super_ops, i + 1)

\* for ks, op in zip(config["ks"], super_ops): op.set_subnet_config(subnet_kernel_size=ks)
RECURSIVE set_config_ks(_, _, _, _)
set_config_ks(h, ks, super_ops, i) ==
    IF i > Min(Len(ks), Len(super_ops)) THEN h
    ELSE set_config_ks(set_subnet_config(h, super_ops[i], None, None, Some(ks[i])),
                       ks, super_ops, i + 1)

\* for num_layers, op in zip(config["num_layers"], seq_ops): op.set_num_layers(num_layers)
RECURSIVE set_config_num_layers(_, _, _, _)
set_config_num_layers(h, depths, seq_ops, i) ==
    IF i > Min(Len(depths), Len(seq_ops)) THEN h
    ELSE set_config_num_layers(set_num_layers(h, seq_ops[i], depths[i]),
                               depths, seq_ops, i + 1)

\* InceptionResnetV1.set_config: the heap afterwards
set_config(h, config) ==
    set_config_num_layers(set_config_ks(h, config.ks, get_super_ops, 1),
                          config.num_layers, get_super_sequential_ops, 1)

\* InceptionResnetV1.get_config
get_config ==
    [ks |-> [i \in 1..Len(get_super_ops) |->
               subnet_cfg[get_super_ops[i]].subnet_kernel_size],
     num_layers |-> [i \in 1..Len(get_super_sequential_ops) |->
                       num_layers[get_super_sequential_ops[i]]]]

\* ------------------------------------------------------------------------
\* Accounting oracle
\* ------------------------------------------------------------------------
\* get_parameters(model) for the module m at path p, under the attributes h
RECURSIVE get_parameters(_, _, _)
get_parameters(m, p, h) ==
    LET module_params(i) ==
          LET module == named_children(m)[i]
              q == Append(p, i)
          IN  IF hasattr_get_parameters(module)
                THEN get_parameters(module, q, h)
              ELSE IF module.kind = "BasicConv2d"
                      /\ module.children[1].kind = "SuperConv2D"
                THEN calculate_superconv2d_params(module.children[1],
                                                  h.subnet_cfg[Append(q, 1)])[1]
                     + numel_parameters(module.children[2])
                     + numel_parameters(module.children[3])
              ELSE IF module.kind = "SuperConv2D"
                THEN calculate_superconv2d_params(module, h.subnet_cfg[q])[1]
              ELSE IF isinstance_Sequential(module)
                THEN SumSeq([j \in 1..Len(named_children(module)) |->
                               get_parameters(named_children(module)[j], Append(q, j), h)])
              ELSE numel_parameters(module)
    IN  SumSeq([i \in 1..Len(named_children(m)) |-> module_params(i)])

\* ------------------------------------------------------------------------
\* Construction
\* ------------------------------------------------------------------------
\* SuperConv2D.__init__ ends with set_subnet_config(super_in_dim,
\* super_out_dim, super_kernel_size); SuperSequential.__init__ sets
\* num_layers = len(self); InceptionResnetV1.__init__ then applies the
\* maximal kernel sizes and the full depths, which changes nothing.
MaxCfg(op) ==
    [subnet_in_dim |-> op.super_in_dim, subnet_out_dim |-> op.super_out_dim,
     subnet_kernel_size |-> op.super_kernel_size]

\* the callers of one operator: one configures it, one applies it
Threads == {"writer", "reader"}

NoCfg == [subnet_in_dim |-> None, subnet_out_dim |-> None, subnet_kernel_size |-> None]

\* a thread that is in no method: the frame of a call holds the method, its
\* position in it, self, the arguments, the attribute values it has loaded,
\* for set_subnet_config the configuration of self when it was called, and
\* whether a call of the other thread on self was in progress at any time
\* since
Idle == [pc |-> "idle", call |-> "none", self |-> <<>>, args |-> NoCfg,
         x_channels |-> None, loaded |-> NoCfg, before |-> NoCfg,
         interleaved |-> FALSE]

\* no call has returned a result the caller still holds
NoCall == [call |-> "none", self |-> <<>>, args |-> None, raised |-> FALSE, value |-> None]

Init ==
    /\ model \in Models
    /\ subnet_cfg = [p \in PathsOfKind("SuperConv2D") |-> MaxCfg(At(p))]
    /\ subnet = [p \in PathsOfKind("SuperConv2D") |->
                   _subnet_parameters(At(p), MaxCfg(At(p)))]
    /\ num_layers = [p \in PathsOfKind("SuperSequential") |->
                       Len(At(p).children)]
    /\ ret = NoCall
    /\ frames = [t \in Threads |-> Idle]

OptOf(S) == {None} \cup {Some(v) : v \in S}

\* a call is made when the caller holds no pending result
Install(h) ==
    /\ ret.call = "none"
    /\ subnet_cfg' = h.subnet_cfg
    /\ subnet' = h.subnet
    /\ num_layers' = h.num_layers
    /\ UNCHANGED <<model, frames>>

\* op.set_subnet_config(subnet_in_dim, subnet_out_dim, subnet_kernel_size)
SetSubnetConfig ==
    \E p \in PathsOfKind("SuperConv2D") :
    \E a_in \in OptOf(ChanVals), a_out \in OptOf(ChanVals), a_ks \in OptOf(KernelVals) :
        /\ Install(set_subnet_config(Heap, p, a_in, a_out, a_ks))
        /\ ret' = [call |-> "set_subnet_config", self |-> p,
                   args |-> [subnet_in_dim |-> a_in, subnet_out_dim |-> a_out,
                             subnet_kernel_size |-> a_ks],
                   raised |-> FALSE, value |-> None]

\* op(x) on an elastic convolution
SuperConv2DForward ==
    \E p \in PathsOfKind("SuperConv2D") :
    \E x_channels \in ChanVals \cup {At(p).super_in_dim} :
        LET r == SuperConv2D_forward(Heap, p, x_channels) IN
        /\ Install(r.heap)
        /\ ret' = [call |-> "SuperConv2D.forward", self |-> p,
                   args |-> [x_channels |-> x_channels],
                   raised |-> r.raised, value |-> r.value]

\* op.set_num_layers(n)
SetNumLayers ==
    \E p \in PathsOfKind("SuperSequential") :
    \E n \in DepthVals :
        /\ Install(set_num_layers(Heap, p, n))
        /\ ret' = [call |-> "set_num_layers", self |-> p,
                   args |-> [num_layers |-> n],
                   raised |-> FALSE, value |-> None]

\* op(x) and op(x, num_layers) on an elastic container
SuperSequentialForward ==
    \E p \in PathsOfKind("SuperSequential") :
    \E a \in OptOf(DepthVals) :
        LET r == SuperSequential_forward(Heap, p, [input |-> "x", applied |-> <<>>], a) IN
        /\ Install(r.heap)
        /\ ret' = [call |-> "SuperSequential.forward", self |-> p,
                   args |-> [num_layers |-> a],
                   raised |-> r.raised, value |-> r.value]

\* model.set_config({"ks": ks, "num_layers": depths}); the lists are up to one
\* longer than the discovered operators
SetConfig ==
    /\ Root.kind = "InceptionResnetV1"
    /\ \E ks \in SeqsUpTo(KernelVals, Len(get_super_ops) + 1) :
       \E depths \in SeqsUpTo(DepthVals, Len(get_super_sequential_ops) + 1) :
           /\ Install(set_config(Heap, [ks |-> ks, num_layers |-> depths]))
           /\ ret' = [call |-> "set_config", self |-> <<>>,
                      args |-> [ks |-> ks, num_layers |-> depths],
                      raised |-> FALSE, value |-> None]

\* model.get_config()
GetConfig ==
    /\ ret.call = "none"
    /\ Root.kind = "InceptionResnetV1"
    /\ ret' = [call |-> "get_config", self |-> <<>>, args |-> None,
               raised |-> FALSE, value |-> get_config]
    /\ UNCHANGED <<model, subnet_cfg, subnet, num_layers, frames>>

\* get_parameters(module) on the root, on a block (its method) or on a stage
GetParameters ==
    \E p \in {<<>>} \cup PathsOfKind("CustomNNModule")
                    \cup PathsOfKind("SuperSequential") :
        /\ ret.call = "none"
        /\ ret' = [call |-> "get_parameters", self |-> p, args |-> None,
                   raised |-> FALSE,
                   value |-> get_parameters(At(p), p, Heap)]
        /\ UNCHANGED <<model, subnet_cfg, subnet, num_layers, frames>>

\* the caller has looked at the outcome of the call and drops it
Return ==
    /\ ret.call /= "none"
    /\ ret' = NoCall
    /\ UNCHANGED <<model, subnet_cfg, subnet, num_layers, frames>>

Next ==
    \/ SetSubnetConfig
    \/ SuperConv2DForward
    \/ SetNumLayers
    \/ SuperSequentialForward
    \/ SetConfig
    \/ GetConfig
    \/ GetParameters
    \/ Return

Spec == Init /\ [][Next]_vars

\* the elastic convolution alone
NextConv ==
    \/ SetSubnetConfig
    \/ SuperConv2DForward
    \/ Return

SpecConv == Init /\ [][NextConv]_vars

\* the elastic container alone
NextSeq ==
    \/ SetNumLayers
    \/ SuperSequentialForward
    \/ Return

SpecSeq == Init /\ [][NextSeq]_vars

\* ------------------------------------------------------------------------
\* SuperConv2D under two threads.  Neither set_subnet_config nor forward
\* takes a lock, so a thread can be suspended between any two attribute
\* accesses: each step below is one assignment to, or one load of, an
\* attribute of self.
\* ------------------------------------------------------------------------
InFlight(t, p) == frames[t].pc /= "idle" /\ frames[t].self = p

\* thread t enters a method of the operator at path p with the frame f
Enter(t, p, f) ==
    [u \in Threads |->
        IF u = t
          THEN [f EXCEPT !.interleaved = \E v \in Threads \ {t} : InFlight(v, p)]
          ELSE IF InFlight(u, p) THEN [frames[u] EXCEPT !.interleaved = TRUE]
                                 ELSE frames[u]]

\* the frame of a thread that has come to the end of _subnet_parameters:
\* set_subnet_config returns, forward goes on to the convolution
Leave_subnet_parameters(f) ==
    IF f.call = "forward" THEN [f EXCEPT !.pc = "conv2d"] ELSE Idle

\* the writer calls op.set_subnet_config(subnet_in_dim, subnet_out_dim,
\* subnet_kernel_size), each argument omitted or within the maximal extent
Call_set_subnet_config ==
    \E p \in PathsOfKind("SuperConv2D") :
    \E a_in \in OptOf(1..At(p).super_in_dim), a_out \in OptOf(1..At(p).super_out_dim),
       a_ks \in OptOf(1..At(p).super_kernel_size) :
        /\ frames["writer"].pc = "idle"
        /\ frames' = Enter("writer", p,
                           [Idle EXCEPT !.pc = "subnet_in_dim",
                                        !.call = "set_subnet_config",
                                        !.self = p,
                                        !.args = [subnet_in_dim |-> a_in,
                                                  subnet_out_dim |-> a_out,
                                                  subnet_kernel_size |-> a_ks],
                                        !.before = subnet_cfg[p]])
        /\ UNCHANGED <<model, subnet_cfg, subnet, num_layers, ret>>

\* if subnet_in_dim is not None: self.subnet_in_dim = subnet_in_dim
Assign_subnet_in_dim ==
    LET f == frames["writer"] IN
    /\ f.pc = "subnet_in_dim"
    /\ subnet_cfg' = IF f.args.subnet_in_dim /= None
                       THEN [subnet_cfg EXCEPT ![f.self].subnet_in_dim =
                                                   f.args.subnet_in_dim[1]]
                       ELSE subnet_cfg
    /\ frames' = [frames EXCEPT !["writer"].pc = "subnet_out_dim"]
    /\ UNCHANGED <<model, subnet, num_layers, ret>>

\* if subnet_out_dim is not None: self.subnet_out_dim = subnet_out_dim
Assign_subnet_out_dim ==
    LET f == frames["writer"] IN
    /\ f.pc = "subnet_out_dim"
    /\ subnet_cfg' = IF f.args.subnet_out_dim /= None
                       THEN [subnet_cfg EXCEPT ![f.self].subnet_out_dim =
                                                   f.args.subnet_out_dim[1]]
                       ELSE subnet_cfg
    /\ frames' = [frames EXCEPT !["writer"].pc = "subnet_kernel_size"]
    /\ UNCHANGED <<model, subnet, num_layers, ret>>

\* if subnet_kernel_size is not None: self.subnet_kernel_size =
\* subnet_kernel_size; then self._subnet_parameters() is entered
Assign_subnet_kernel_size ==
    LET f == frames["writer"] IN
    /\ f.pc = "subnet_kernel_size"
    /\ subnet_cfg' = IF f.args.subnet_kernel_size /= None
                       THEN [subnet_cfg EXCEPT ![f.self].subnet_kernel_size =
                                                   f.args.subnet_kernel_size[1]]
                       ELSE subnet_cfg
    /\ frames' = [frames EXCEPT !["writer"].pc = "load_in_dim"]
    /\ UNCHANGED <<model, subnet, num_layers, ret>>

\* the reader calls op(x); forward begins with self._subnet_parameters()
Call_forward ==
    \E p \in PathsOfKind("SuperConv2D") :
    \E x_channels \in ChanVals \cup {At(p).super_in_dim} :
        /\ ret.call = "none"
        /\ frames["reader"].pc = "idle"
        /\ frames' = Enter("reader", p,
                           [Idle EXCEPT !.pc = "load_in_dim",
                                        !.call = "forward",
                                        !.self = p,
                                        !.x_channels = Some(x_channels)])
        /\ UNCHANGED <<model, subnet_cfg, subnet, num_layers, ret>>

\* _subnet_parameters evaluates the arguments of _subselect_weight in
\* order: self.subnet_in_dim
Load_subnet_in_dim(t) ==
    LET f == frames[t] IN
    /\ f.pc = "load_in_dim"
    /\ frames' = [frames EXCEPT ![t].pc = "load_out_dim",
                                ![t].loaded.subnet_in_dim =
                                    Some(subnet_cfg[f.self].subnet_in_dim)]
    /\ UNCHANGED <<model, subnet_cfg, subnet, num_layers, ret>>

\* self.subnet_out_dim
Load_subnet_out_dim(t) ==
    LET f == frames[t] IN
    /\ f.pc = "load_out_dim"
    /\ frames' = [frames EXCEPT ![t].pc = "load_kernel_size",
                                ![t].loaded.subnet_out_dim =
                                    Some(subnet_cfg[f.self].subnet_out_dim)]
    /\ UNCHANGED <<model, subnet_cfg, subnet, num_layers, ret>>

\* self.subnet_kernel_size
Load_subnet_kernel_size(t) ==
    LET f == frames[t] IN
    /\ f.pc = "load_kernel_size"
    /\ frames' = [frames EXCEPT ![t].pc = "store_weight",
                                ![t].loaded.subnet_kernel_size =
                                    Some(subnet_cfg[f.self].subnet_kernel_size)]
    /\ UNCHANGED <<model, subnet_cfg, subnet, num_layers, ret>>

\* self.subnet["weight"] = self._subselect_weight(self.weight, ...).to("cuda"),
\* with the values loaded; then the test "self.bias is not None"
Store_subnet_weight(t) ==
    LET f == frames[t]
        op == At(f.self)
    IN  /\ f.pc = "store_weight"
        /\ subnet' = [subnet EXCEPT ![f.self].weight =
                        _subselect_weight(weight(op), f.loaded.subnet_in_dim[1],
                                          f.loaded.subnet_out_dim[1],
                                          f.loaded.subnet_kernel_size[1])]
        /\ frames' = [frames EXCEPT ![t] =
                        IF bias(op) /= None THEN [f EXCEPT !.pc = "store_bias"]
                                            ELSE Leave_subnet_parameters(f)]
        /\ UNCHANGED <<model, subnet_cfg, num_layers, ret>>

\* self.subnet["bias"] = self._subselect_bias(self.bias, self.subnet_out_dim)
\* and its copy to the device; self.subnet_out_dim is loaded anew.  The load
\* and the store are one step: forward does not read the bias slice.
Store_subnet_bias(t) ==
    LET f == frames[t]
        op == At(f.self)
    IN  /\ f.pc = "store_bias"
        /\ subnet' = [subnet EXCEPT ![f.self].bias =
                        Some(_subselect_bias(bias(op)[1],
                                             subnet_cfg[f.self].subnet_out_dim))]
        /\ frames' = [frames EXCEPT ![t] = Leave_subnet_parameters(f)]
        /\ UNCHANGED <<model, subnet_cfg, num_layers, ret>>

\* variant: the convolution takes self.weight, the whole superkernel
conv2d_superkernel ==
    LET f == frames["reader"]
        w == weight(At(f.self))
    IN  /\ f.pc = "conv2d"
        /\ ret' = [call |-> "SuperConv2D.forward", self |-> f.self,
                   args |-> [x_channels |-> f.x_channels[1]],
                   raised |-> shape(w)[2] /= f.x_channels[1],
                   value |-> [weight |-> w, out_channels |-> shape(w)[1]]]
        /\ frames' = [frames EXCEPT !["reader"] = Idle]
        /\ UNCHANGED <<model, subnet_cfg, subnet, num_layers>>

\* F.conv2d(input=x, weight=self.subnet["weight"], ...) and the return of
\* forward: the slice stored in self.subnet at this moment is convolved
conv2d ==
    LET f == frames["reader"]
        w == subnet[f.self].weight
    IN  /\ f.pc = "conv2d"
        /\ ret' = [call |-> "SuperConv2D.forward", self |-> f.self,
                   args |-> [x_channels |-> f.x_channels[1]],
                   raised |-> shape(w)[2] /= f.x_channels[1],
                   value |-> [weight |-> w, out_channels |-> shape(w)[1]]]
        /\ frames' = [frames EXCEPT !["reader"] = Idle]
        /\ UNCHANGED <<model, subnet_cfg, subnet, num_layers>>

NextRace ==
    \/ Call_set_subnet_config
    \/ Assign_subnet_in_dim
    \/ Assign_subnet_out_dim
    \/ Assign_subnet_kernel_size
    \/ Call_forward
    \/ \E t \in Threads : Load_subnet_in_dim(t)
    \/ \E t \in Threads : Load_subnet_out_dim(t)
    \/ \E t \in Threads : Load_subnet_kernel_size(t)
    \/ \E t \in Threads : Store_subnet_weight(t)
    \/ \E t \in Threads : Store_subnet_bias(t)
    \/ conv2d
    \/ Return

\* the topologies the two threads run on: each has one elastic convolution,
\* with and without a bias, alone and inside the network
RaceModels == {"ConvBias", "ElasticInModule", "NetB"}

InitRace == Init /\ model \in RaceModels

SpecRace == InitRace /\ [][NextRace]_vars

\* ------------------------------------------------------------------------
\* Properties
\* ------------------------------------------------------------------------
Convs == PathsOfKind("SuperConv2D")
Containers == PathsOfKind("SuperSequential")
Length(p) == Len(At(p).children)

\* a supplied value of the call exceeds the operator's maximum
ExceedsMax(p, a) ==
    \/ a.subnet_in_dim /= None /\ a.subnet_in_dim[1] > At(p).super_in_dim
    \/ a.subnet_out_dim /= None /\ a.subnet_out_dim[1] > At(p).super_out_dim
    \/ a.subnet_kernel_size /= None /\ a.subnet_kernel_size[1] > At(p).super_kernel_size

\* C1: a set_subnet_config call in which a supplied in, out or kernel value
\* exceeds the operator's maximum fails, and the active configuration of
\* every operator after the call is the one before it.
C1_FailFast ==
    [][(ret'.call = "set_subnet_config" /\ ExceedsMax(ret'.self, ret'.args))
         => (ret'.raised /\ subnet_cfg' = subnet_cfg)]_vars

\* C2: right after set_config with as many kernel sizes as discovered elastic
\* convolutions and as many depths as discovered elastic containers,
\* get_config returns exactly the applied lists, element for element.
C2_RoundTrip ==
    (/\ ret.call = "set_config"
     /\ Len(ret.args.ks) = Len(get_super_ops)
     /\ Len(ret.args.num_layers) = Len(get_super_sequential_ops))
    => (/\ get_config.ks = ret.args.ks
        /\ get_config.num_layers = ret.args.num_layers)

\* a round trip of two different kernel sizes, one of them above the maximal
\* kernel, applied over a configuration that was changed before
C2_Witness ==
    /\ model = "NetA"
    /\ ret.call = "set_config"
    /\ ret.args.ks = <<1, 3>>
    /\ ret.args.num_layers = <<1>>
    /\ subnet_cfg[get_super_ops[1]].subnet_in_dim = 1

\* C3: the active depth of every elastic container is between 0 and the
\* number of its sub-operators, in every reachable state.
C3_DepthInRange ==
    \A p \in Containers : 0 <= num_layers[p] /\ num_layers[p] <= Length(p)

\* the sub-operators at Python indices 0..n-1 of the container at path p,
\* applied in index order to the input
AppliedPrefix(p, n) ==
    [input |-> "x", applied |-> [i \in 1..n |-> Append(p, i)]]

\* C4: with an active depth n between 0 and the length, forward(x) returns
\* the sub-operators 0..n-1 applied once each, in index order, each to the
\* output of the previous one, and none at index >= n; for n = 0 it returns
\* the input, and for n = length the result of the untruncated container.
C4_Forward ==
    (/\ ret.call = "SuperSequential.forward"
     /\ ret.args.num_layers = None
     /\ 0 <= num_layers[ret.self]
     /\ num_layers[ret.self] <= Length(ret.self))
    => (/\ ~ret.raised
        /\ ret.value = AppliedPrefix(ret.self, num_layers[ret.self])
        /\ num_layers[ret.self] = 0 => ret.value = [input |-> "x", applied |-> <<>>]
        /\ num_layers[ret.self] = Length(ret.self)
             => ret.value.applied = [i \in 1..Length(ret.self) |-> Append(ret.self, i)])

\* a truncated forward pass: one of two sub-operators runs
C4_Witness ==
    /\ ret.call = "SuperSequential.forward"
    /\ ret.args.num_layers = None
    /\ Length(ret.self) = 2
    /\ num_layers[ret.self] = 1
    /\ ret.value.applied = << Append(ret.self, 1) >>

ValidCfg(p) ==
    LET c == subnet_cfg[p] IN
    /\ 0 < c.subnet_in_dim /\ c.subnet_in_dim <= At(p).super_in_dim
    /\ 0 < c.subnet_out_dim /\ c.subnet_out_dim <= At(p).super_out_dim
    /\ 0 < c.subnet_kernel_size /\ c.subnet_kernel_size <= At(p).super_kernel_size

RECURSIVE Product(_)
Product(s) == IF Len(s) = 0 THEN 1 ELSE Head(s) * Product(Tail(s))

\* C5: for every elastic convolution with a valid active configuration, the
\* sliced weight is the prefix of the superkernel anchored at index 0 on
\* every axis, of extent (out, in, kernel, kernel); the accounting reports
\* in * out * kernel^2 weight parameters, the number of elements of that
\* slice, plus out if there is a bias; conv2d_2a (32/32/3, no bias) reports
\* 1024 at kernel 1 and 9216 at kernel 3.
C5_Slice ==
    \A p \in Convs :
        ValidCfg(p) =>
            LET c == subnet_cfg[p]
                total == calculate_superconv2d_params(At(p), c)[1]
                b == IF At(p).has_bias THEN c.subnet_out_dim ELSE 0
            IN  /\ subnet[p].weight =
                     << Arange(c.subnet_out_dim), Arange(c.subnet_in_dim),
                        Arange(c.subnet_kernel_size), Arange(c.subnet_kernel_size) >>
                /\ shape(subnet[p].weight) =
                     << c.subnet_out_dim, c.subnet_in_dim,
                        c.subnet_kernel_size, c.subnet_kernel_size >>
                /\ total = c.subnet_in_dim * c.subnet_out_dim
                             * c.subnet_kernel_size * c.subnet_kernel_size + b
                /\ total = Product(shape(subnet[p].weight)) + b
                /\ At(p).has_bias => subnet[p].bias = Some(<< Arange(c.subnet_out_dim) >>)
                /\ (model = "ConvReal" /\ c.subnet_in_dim = 32 /\ c.subnet_out_dim = 32)
                     => /\ c.subnet_kernel_size = 1 => total = 1024
                        /\ c.subnet_kernel_size = 3 => total = 9216

\* conv2d_2a at its real extent after set_subnet_config(subnet_kernel_size=1)
C5_Witness ==
    /\ model = "ConvReal"
    /\ ret.call = "set_subnet_config"
    /\ ret.args.subnet_kernel_size = Some(1)
    /\ \A p \in Convs :
         /\ subnet_cfg[p] = [subnet_in_dim |-> 32, subnet_out_dim |-> 32,
                             subnet_kernel_size |-> 1]
         /\ calculate_superconv2d_params(At(p), subnet_cfg[p])[1] = 1024

\* C6: for a topology without any elastic operator, get_parameters on the
\* root returns the plain sum of the stored parameter counts of all leaves.
C6_PlainSum ==
    (ret.call = "get_parameters" /\ ret.self = <<>> /\ Convs = {})
    => ret.value = numel_parameters(Root)

\* the module m with the instance at path q replaced by new
RECURSIVE ReplaceAt(_, _, _)
ReplaceAt(m, q, new) ==
    IF Len(q) = 0 THEN new
    ELSE [m EXCEPT !.children[Head(q)] = ReplaceAt(@, Tail(q), new)]

\* what the elastic convolution at path q adds to the oracle total of the
\* root: the total, less the total of the same topology with a parameterless
\* leaf in its place
Contribution(q) ==
    get_parameters(Root, <<>>, Heap) - get_parameters(ReplaceAt(Root, q, ReLU), <<>>, Heap)

\* C7: whenever the oracle is asked for the total of a topology, each elastic
\* convolution contributes active_in * active_out * active_kernel^2 (+
\* active_out with a bias) to it, wherever it sits in the topology.
C7_Contribution ==
    (ret.call = "get_parameters" /\ ret.self = <<>>)
    => \A q \in Convs :
         LET c == subnet_cfg[q] IN
         Contribution(q) =
             c.subnet_in_dim * c.subnet_out_dim * c.subnet_kernel_size * c.subnet_kernel_size
               + (IF At(q).has_bias THEN c.subnet_out_dim ELSE 0)

\* the accounting of the sub-operators of the container at path p that lie
\* beyond its active depth
ExcludedCost(p) ==
    SumSeq([i \in 1..Length(p) |->
              IF i > num_layers[p]
                THEN get_parameters(At(p).children[i], Append(p, i), Heap)
                ELSE 0])

\* C8: with every active depth in range, the oracle total of the network is
\* the cost of what the active sub-network executes: the total at full
\* depth, less the accounting of the sub-operators beyond each container's
\* active depth.
C8_ActiveDepth ==
    (ret.call = "get_parameters" /\ ret.self = <<>> /\ C3_DepthInRange)
    => ret.value = get_parameters(Root, <<>>, Heap) - SumSeq([j \in 1..Len(get_super_sequential_ops) |->
                     ExcludedCost(get_super_sequential_ops[j])])

\* C9: in every reachable state each elastic convolution and each elastic
\* container of the topology is discovered exactly once, whatever the active
\* depths, and no call changes what is discovered or its order.
C9_Stable ==
    /\ [](/\ \A p \in Convs : Cardinality({i \in 1..Len(get_super_ops) : get_super_ops[i] = p}) = 1
          /\ \A p \in Containers :
               Cardinality({i \in 1..Len(get_super_sequential_ops) :
                              get_super_sequential_ops[i] = p}) = 1)
    /\ [][/\ get_super_ops' = get_super_ops
          /\ get_super_sequential_ops' = get_super_sequential_ops]_vars

\* the second elastic convolution lies beyond the active depth of its
\* container and has been configured through set_config
C9_Witness ==
    /\ model = "NetA"
    /\ ret.call = "set_config"
    /\ ret.args.ks = <<2, 1>>
    /\ num_layers[<<3>>] = 1
    /\ IsPrefix(<<3, 2>>, get_super_ops[2])
    /\ subnet_cfg[get_super_ops[2]].subnet_kernel_size = 1

\* C10: set_config raises nothing; the active kernel of the i-th discovered
\* convolution becomes the i-th kernel size if there is one and stays as it
\* was otherwise; active_in and active_out of every convolution stay as they
\* were; the same holds for the depths and the discovered containers.
C10_Frame ==
    [][ret'.call = "set_config" =>
         LET ks == ret'.args.ks
             depths == ret'.args.num_layers
         IN  /\ ~ret'.raised
             /\ DOMAIN subnet_cfg' = DOMAIN subnet_cfg
             /\ DOMAIN num_layers' = DOMAIN num_layers
             /\ \A i \in 1..Len(get_super_ops) :
                  LET op == get_super_ops[i] IN
                  /\ subnet_cfg'[op].subnet_kernel_size =
                       IF i <= Len(ks) THEN ks[i] ELSE subnet_cfg[op].subnet_kernel_size
                  /\ subnet_cfg'[op].subnet_in_dim = subnet_cfg[op].subnet_in_dim
                  /\ subnet_cfg'[op].subnet_out_dim = subnet_cfg[op].subnet_out_dim
             /\ \A j \in 1..Len(get_super_sequential_ops) :
                  LET op == get_super_sequential_ops[j] IN
                  num_layers'[op] =
                      IF j <= Len(depths) THEN depths[j] ELSE num_layers[op]
      ]_vars

\* fewer kernel sizes than convolutions and more depths than containers: the
\* second convolution keeps a kernel set earlier, the first keeps its
\* channels, the excess depth is dropped
C10_Witness ==
    /\ model = "NetA"
    /\ ret.call = "set_config"
    /\ ret.args.ks = <<3>>
    /\ ret.args.num_layers = <<1, 0>>
    /\ subnet_cfg[get_super_ops[1]].subnet_kernel_size = 3
    /\ subnet_cfg[get_super_ops[1]].subnet_in_dim = 1
    /\ subnet_cfg[get_super_ops[2]].subnet_kernel_size = 1
    /\ num_layers[get_super_sequential_ops[1]] = 1

\* the value a field holds after set_subnet_config: the supplied one, or the
\* one it had
Supplied(arg, before) == IF arg /= None THEN arg[1] ELSE before

\* C11: set_subnet_config changes only the fields it is given: whichever of
\* subnet_in_dim, subnet_out_dim and subnet_kernel_size are supplied hold the
\* supplied values after the call, the others hold the values they had, no
\* other operator's configuration changes, and the superkernel weight and
\* bias are the same tensors, in extent and in content, as before the call
\* (the active slice alone is recomputed, from the new configuration).
C11_OnlySupplied ==
    [][\A p \in Convs :
         (ret'.call = "set_subnet_config" /\ ret'.self = p) =>
             LET a == ret'.args IN
             /\ subnet_cfg'[p].subnet_in_dim =
                  Supplied(a.subnet_in_dim, subnet_cfg[p].subnet_in_dim)
             /\ subnet_cfg'[p].subnet_out_dim =
                  Supplied(a.subnet_out_dim, subnet_cfg[p].subnet_out_dim)
             /\ subnet_cfg'[p].subnet_kernel_size =
                  Supplied(a.subnet_kernel_size, subnet_cfg[p].subnet_kernel_size)
             /\ \A q \in Convs \ {p} : subnet_cfg'[q] = subnet_cfg[q]
             /\ (weight(At(p)))' = weight(At(p))
             /\ (bias(At(p)))' = bias(At(p))
             /\ (shape(weight(At(p))))' =
                  << At(p).super_out_dim, At(p).super_in_dim,
                     At(p).super_kernel_size, At(p).super_kernel_size >>
             /\ subnet'[p] = _subnet_parameters(At(p), subnet_cfg'[p])
      ]_vars

\* only subnet_out_dim is supplied, to an operator with a bias whose input
\* channels and kernel were narrowed by earlier calls: both keep the narrowed
\* values, and the bias slice follows the new output channels
C11_Witness ==
    /\ model = "ConvBias"
    /\ ret.call = "set_subnet_config"
    /\ ret.args = [subnet_in_dim |-> None, subnet_out_dim |-> Some(1),
                   subnet_kernel_size |-> None]
    /\ subnet_cfg[ret.self] = [subnet_in_dim |-> 1, subnet_out_dim |-> 1,
                               subnet_kernel_size |-> 1]
    /\ subnet[ret.self].bias = Some(<< Arange(1) >>)
    /\ shape(weight(At(ret.self))) = <<1, 2, 2, 2>>

\* the configuration of the operator at path p is half-updated: the
\* set_subnet_config in progress on it has given one field a new value and
\* has yet to give another field its new value
HalfUpdated(p) ==
    LET f == frames["writer"]
        c == subnet_cfg[p]
        Fields == {"subnet_in_dim", "subnet_out_dim", "subnet_kernel_size"}
        New(k) == f.args[k] /= None /\ f.args[k][1] /= f.before[k]
    IN  /\ f.call = "set_subnet_config"
        /\ f.self = p
        /\ \E k \in Fields : New(k) /\ c[k] = f.args[k][1]
        /\ \E k \in Fields : New(k) /\ c[k] = f.before[k]

SliceOf(p, c) ==
    _subselect_weight(weight(At(p)), c.subnet_in_dim, c.subnet_out_dim,
                      c.subnet_kernel_size)

\* C12: a forward on an operator during which no set_subnet_config on the
\* same operator was in progress at any time convolves with the slice of
\* the operator's current configuration, which no call is in the middle of
\* changing; its output has that configuration's number of output channels.
\* With interleaving there is no such guarantee, as nothing excludes the
\* state C12_HalfUpdated.
C12_NotInterleaved ==
    [][\A p \in Convs :
         (/\ ret.call = "none"
          /\ ret'.call = "SuperConv2D.forward"
          /\ ret'.self = p
          /\ ~frames["reader"].interleaved)
         => /\ ~InFlight("writer", p)
            /\ ret'.value.weight = SliceOf(p, subnet_cfg[p])
            /\ ret'.value.out_channels =
                 Min(subnet_cfg[p].subnet_out_dim, At(p).super_out_dim)
      ]_vars

\* a forward has just convolved with a slice built while a
\* set_subnet_config on the same operator was between two of its
\* assignments: the slice is that of the half-updated configuration, and is
\* neither the slice of the configuration before that call nor the slice of
\* the configuration the call is establishing
C12_HalfUpdated ==
    /\ ret.call = "SuperConv2D.forward"
    /\ HalfUpdated(ret.self)
    /\ LET p == ret.self
           f == frames["writer"]
           after == [k \in DOMAIN f.before |-> Supplied(f.args[k], f.before[k])]
       IN  /\ ret.value.weight = SliceOf(p, subnet_cfg[p])
           /\ ret.value.weight /= SliceOf(p, f.before)
           /\ ret.value.weight /= SliceOf(p, after)

====
